---- MODULE Spec2Model ----
(***************************************************************************)
(* Model of the dual-camera recording server.                              *)
(*   src/src/main.rs           : the /start and /stop handlers, the two    *)
(*                               shared atomics and the spawned task.      *)
(*   src/src/camera_handler.rs : run_recording_blocking (capture loop and  *)
(*                               finalisation), reencode_video and         *)
(*                               VideoWriterGuard.                         *)
(* Every atomic load/store, camera read, file write and library call that  *)
(* can fail is one step; the outcome of a library call is chosen by the    *)
(* environment.                                                            *)
(***************************************************************************)
EXTENDS Integers, Sequences, FiniteSets, TLC

\* ------------------------------------------------------------- bounds
\* Frames the capture loop may count before it waits for /stop.
MaxFrames == 2
\* Clock ticks the wall clock may advance during one capture loop.
MaxElapsed == 2
\* Accepted /start requests.
MaxSessions == 2
\* /stop handlers that may sit between their load and their store.
MaxStopHandlers == 1
\* Reads after a stop request are counted up to this many.
MaxCounted == 2

\* ------------------------------------------------- program constants
FRAME_WIDTH == 1280
FRAME_HEIGHT == 720
REQUESTED_FPS == 24

\* combined_width = FRAME_WIDTH * 2
combined_width == FRAME_WIDTH * 2

\* ------------------------------------------------------------ frames
\* A Mat is known by its size; Mat::default() has no pixels.
Mat(cols, rows) == [cols |-> cols, rows |-> rows]
MatDefault == Mat(0, 0)
Empty(m) == m.cols = 0 \/ m.rows = 0

\* What a camera can deliver into the frame buffer on one read: nothing, a
\* frame of the configured size, or a frame of another size (a driver that
\* ignored the CAP_PROP_FRAME_* settings).
CameraFrames ==
    { MatDefault, Mat(FRAME_WIDTH, FRAME_HEIGHT), Mat(FRAME_WIDTH \div 2, 480) }

\* The condition of the resize branch.
DimensionsDiffer(f0, f1) ==
    \/ f0.cols # FRAME_WIDTH
    \/ f0.rows # FRAME_HEIGHT
    \/ f1.cols # FRAME_WIDTH
    \/ f1.rows # FRAME_HEIGHT

\* imgproc::resize(&frame, &mut frame.clone(), target_size, ...): the output
\* goes to a temporary clone that is dropped at once, so the frame the loop
\* keeps is the frame it had.
Resize(frame) == frame

\* core::hconcat of <<frame1, frame0>>: defined when the rows agree, the
\* widths add up.
HconcatOk(f1, f0) == f1.rows = f0.rows
Hconcat(f1, f0, n) == [id |-> n, cols |-> f1.cols + f0.cols, rows |-> f0.rows]

\* Variant: the writer puts the newest frame first.
PrependFrame(file, frame) == << frame >> \o file

\* VideoWriter::write(&frame): the frame goes to the end of the file.
AppendFrame(file, frame) == Append(file, frame)

\* An empty frame as cap.read delivers it during re-encoding.
NoFrame == [id |-> 0, cols |-> 0, rows |-> 0]

\* real_fps as the exact quotient num/den.
Fps(num, den) == [num |-> num, den |-> den]
RealFps(count, secs) ==
    IF secs > 0 /\ count > 0 THEN Fps(count, secs) ELSE Fps(REQUESTED_FPS, 1)

VARIABLES
    \* main.rs: AppState and the handlers
    recording_active,   \* AtomicBool
    stop_requested,     \* AtomicBool
    startPc,            \* the accepted /start handler: "idle", "reset", "spawn"
    stopPending,        \* /stop handlers past their load, before their store
    taskRunning,        \* the spawned task awaits the blocking pipeline
    sessions,           \* accepted /start requests so far
    stopAcked,          \* a /stop stored true and answered Ok in this session
    \* camera_handler.rs
    run,                \* locals of run_recording_blocking
    re,                 \* locals of reencode_video
    disk,               \* the temporary and the final file of this session
    hist                \* history of this session (observations only)

vars == << recording_active, stop_requested, startPc, stopPending, taskRunning,
           sessions, stopAcked, run, re, disk, hist >>

mainVars == << recording_active, stop_requested, startPc, stopPending,
               taskRunning, sessions, stopAcked >>

\* ------------------------------------------------------------- state
RunInit ==
    [ pc            |-> "idle",      \* position in run_recording_blocking
      frame0        |-> MatDefault,
      frame1        |-> MatDefault,
      read0_ok      |-> FALSE,
      read1_ok      |-> FALSE,
      combined      |-> NoFrame,
      frame_count   |-> 0,
      elapsed       |-> 0,           \* start_time.elapsed(), in clock ticks
      total_elapsed |-> 0,
      real_fps      |-> Fps(REQUESTED_FPS, 1),
      writer_open   |-> FALSE,       \* temp_writer.is_opened()
      result        |-> "none" ]     \* what the call returned

ReInit ==
    [ cap_open    |-> FALSE,         \* cap, the reader of the temporary file
      pos         |-> 1,             \* next frame cap.read delivers
      frame       |-> NoFrame,
      writer_open |-> FALSE,         \* writer, the final-file writer
      fps         |-> Fps(REQUESTED_FPS, 1) ] \* the fps argument

DiskInit ==
    [ temp_exists  |-> FALSE,
      temp         |-> << >>,        \* frames appended to temp_path, kept
                                     \* here after the file is removed
      final_exists |-> FALSE,
      final        |-> << >>,        \* frames appended to final_path
      final_fps    |-> Fps(REQUESTED_FPS, 1) ]

HistInit ==
    [ loop_exit         |-> "none",  \* how the capture loop was left
      composed          |-> << >>,   \* composites hconcat produced, in order
      writes_after_stop |-> 0,       \* temp writes done with the flag set
      reads_after_stop  |-> <<0, 0>>,\* camera reads done with the flag set
      reencoded         |-> FALSE,   \* reencode_video was called
      read_back         |-> << >>,   \* frames cap.read delivered, in order
      remove_failed     |-> FALSE,   \* fs::remove_file returned an error
      write_failed      |-> FALSE,   \* a write to temp_writer returned Err
      dropped           |-> FALSE,   \* an iteration took the drop branch
      cam_read          |-> FALSE,   \* a camera read was performed
      passed            |-> FALSE ]  \* an iteration passed the drop test

Init ==
    /\ recording_active = FALSE
    /\ stop_requested = FALSE
    /\ startPc = "idle"
    /\ stopPending = 0
    /\ taskRunning = FALSE
    /\ sessions = 0
    /\ stopAcked = FALSE
    /\ run = RunInit
    /\ re = ReInit
    /\ disk = DiskInit
    /\ hist = HistInit

\* ----------------------------------------------------- main.rs handlers
\* Variant: recording_active.store(true) in place of the compare_exchange.
StartAcceptNoCas ==
    /\ startPc = "idle"
    /\ sessions < MaxSessions
    /\ recording_active' = TRUE
    /\ startPc' = "reset"
    /\ sessions' = sessions + 1
    /\ stopAcked' = FALSE
    /\ UNCHANGED << stop_requested, stopPending, taskRunning, run, re, disk,
                    hist >>

\* handle_start_recording: compare_exchange(false, true) succeeds.
StartAccept ==
    /\ startPc = "idle"
    /\ sessions < MaxSessions
    /\ recording_active = FALSE
    /\ recording_active' = TRUE
    /\ startPc' = "reset"
    /\ sessions' = sessions + 1
    /\ stopAcked' = FALSE
    /\ UNCHANGED << stop_requested, stopPending, taskRunning, run, re, disk,
                    hist >>

\* handle_start_recording: compare_exchange fails, 409 CONFLICT.
StartReject ==
    /\ recording_active = TRUE
    /\ UNCHANGED << recording_active, stop_requested, startPc, stopPending,
                    taskRunning, sessions, stopAcked, run, re, disk,
                    hist >>

\* handle_start_recording: stop_requested.store(false).
StartReset ==
    /\ startPc = "reset"
    /\ stop_requested' = FALSE
    /\ startPc' = "spawn"
    /\ UNCHANGED << recording_active, stopPending, taskRunning, sessions,
                    stopAcked, run, re, disk, hist >>

\* handle_start_recording: tokio::spawn of the task that runs
\* run_recording_blocking on a blocking thread; the handler answers Ok.
\* The session's files carry a fresh timestamp, its locals start afresh.
StartSpawn ==
    /\ startPc = "spawn"
    /\ startPc' = "idle"
    /\ taskRunning' = TRUE
    /\ run' = [RunInit EXCEPT !.pc = "setup"]
    /\ re' = ReInit
    /\ disk' = DiskInit
    /\ hist' = HistInit
    /\ UNCHANGED << recording_active, stop_requested, stopPending, sessions,
                    stopAcked >>

\* Variant: recording_active.store(false) sits in the Ok(..) arms of the
\* match only; a JoinError leaves the flag as it is.
TaskFinishUnlessPanic ==
    /\ taskRunning
    /\ run.pc = "done"
    /\ taskRunning' = FALSE
    /\ recording_active' = (run.result = "panic")
    /\ stopAcked' = FALSE
    /\ UNCHANGED << stop_requested, startPc, stopPending, sessions, run, re,
                    disk, hist >>

\* The spawned task after .await: the match on the result only prints, then
\* recording_active.store(false).
TaskFinish ==
    /\ taskRunning
    /\ run.pc = "done"
    /\ taskRunning' = FALSE
    /\ recording_active' = FALSE
    /\ stopAcked' = FALSE
    /\ UNCHANGED << stop_requested, startPc, stopPending, sessions, run, re,
                    disk, hist >>

\* handle_stop_recording: recording_active.load() is false, 409 CONFLICT.
StopReject ==
    /\ recording_active = FALSE
    /\ UNCHANGED << recording_active, stop_requested, startPc, stopPending,
                    taskRunning, sessions, stopAcked, run, re, disk,
                    hist >>

\* handle_stop_recording: recording_active.load() is true.
StopLoad ==
    /\ recording_active = TRUE
    /\ stopPending < MaxStopHandlers
    /\ stopPending' = stopPending + 1
    /\ UNCHANGED << recording_active, stop_requested, startPc, taskRunning,
                    sessions, stopAcked, run, re, disk, hist >>

\* handle_stop_recording: stop_requested.store(true), answers Ok.
StopStore ==
    /\ stopPending > 0
    /\ stopPending' = stopPending - 1
    /\ stop_requested' = TRUE
    /\ stopAcked' = (stopAcked \/ recording_active)
    /\ UNCHANGED << recording_active, startPc, taskRunning, sessions, run, re,
                    disk, hist >>

\* ------------------------------------------- camera_handler.rs helpers
\* Variant: the loop tests a value that never shows the stop request.
LoadStopStale == FALSE

\* stop_requested.load(..) as the pipeline sees it.
LoadStop == stop_requested

\* Variant: dropping the guard leaves the writer as it was.
DropGuardLeak(opened) == opened

\* impl Drop for VideoWriterGuard: if the writer is opened, release it.
\* The value is is_opened() afterwards.
DropGuard(opened) == FALSE

\* A `?` or bail! leaving run_recording_blocking: the locals are dropped
\* (writer_guard among them) and the caller gets the error.
Return(r, kind) ==
    [r EXCEPT !.pc = "done", !.result = kind,
              !.writer_open = DropGuard(r.writer_open)]

\* What one VideoCapture::read on a camera can give: Err, Ok(false) with the
\* buffer emptied, or Ok(true) with a frame (possibly empty) in the buffer.
ReadResults ==
    { [err |-> TRUE, ok |-> FALSE, frame |-> MatDefault],
      [err |-> FALSE, ok |-> FALSE, frame |-> MatDefault] }
    \cup { [err |-> FALSE, ok |-> TRUE, frame |-> f] : f \in CameraFrames }

\* The positions of the capture loop, `while` head to closing brace.
LoopPcs ==
    { "head", "read0", "read1", "check_read", "drop_check", "drop_sleep",
      "resize", "count", "concat", "pre_check", "write", "post_check",
      "sleep" }

Bump(pair, i) == [pair EXCEPT ![i] = IF @ < MaxCounted THEN @ + 1 ELSE @]

\* ----------------------------------------------- run_recording_blocking
\* Instant::now() advances while the loop runs.
Tick ==
    /\ run.pc \in LoopPcs \cup {"finalize"}
    /\ run.elapsed < MaxElapsed
    /\ run' = [run EXCEPT !.elapsed = @ + 1]
    /\ UNCHANGED << mainVars, re, disk, hist >>

\* Lines 26-76 fail: directory, camera open/configure, temporary writer.
SetupFail ==
    /\ run.pc = "setup"
    /\ run' = Return(run, "err_setup")
    /\ UNCHANGED << mainVars, re, disk, hist >>

\* Lines 26-91 succeed: cameras open, temp_writer open on a new temporary
\* file, frame_count = 0, start_time taken, writer_guard holds the writer.
SetupOk ==
    /\ run.pc = "setup"
    /\ run' = [run EXCEPT !.pc = "head", !.writer_open = TRUE,
                          !.frame_count = 0, !.elapsed = 0]
    /\ disk' = [disk EXCEPT !.temp_exists = TRUE, !.temp = << >>]
    /\ UNCHANGED << mainVars, re, hist >>

\* while !stop_requested.load(SeqCst)
LoopHead ==
    /\ run.pc = "head"
    /\ IF LoadStop
       THEN /\ run' = [run EXCEPT !.pc = "finalize"]
            /\ hist' = [hist EXCEPT !.loop_exit = "head"]
       ELSE /\ run.frame_count < MaxFrames
            /\ run' = [run EXCEPT !.pc = "read0", !.frame0 = MatDefault,
                                  !.frame1 = MatDefault, !.read0_ok = FALSE,
                                  !.read1_ok = FALSE, !.combined = NoFrame]
            /\ UNCHANGED hist
    /\ UNCHANGED << mainVars, re, disk >>

\* cam0.read(&mut frame0).context("Failed to read from camera 0")?
Read0 ==
    /\ run.pc = "read0"
    /\ \E r \in ReadResults :
         /\ IF r.err
            THEN /\ run' = Return(run, "err_read")
                 /\ hist' = [hist EXCEPT
                       !.loop_exit = "error", !.cam_read = TRUE,
                       !.reads_after_stop =
                           IF stop_requested THEN Bump(@, 1) ELSE @]
            ELSE /\ run' = [run EXCEPT !.pc = "read1", !.read0_ok = r.ok,
                                       !.frame0 = r.frame]
                 /\ hist' = [hist EXCEPT
                       !.cam_read = TRUE,
                       !.reads_after_stop =
                           IF stop_requested THEN Bump(@, 1) ELSE @]
    /\ UNCHANGED << mainVars, re, disk >>

\* cam1.read(&mut frame1).context("Failed to read from camera 1")?
Read1 ==
    /\ run.pc = "read1"
    /\ \E r \in ReadResults :
         /\ IF r.err
            THEN /\ run' = Return(run, "err_read")
                 /\ hist' = [hist EXCEPT
                       !.loop_exit = "error", !.cam_read = TRUE,
                       !.reads_after_stop =
                           IF stop_requested THEN Bump(@, 2) ELSE @]
            ELSE /\ run' = [run EXCEPT !.pc = "check_read", !.read1_ok = r.ok,
                                       !.frame1 = r.frame]
                 /\ hist' = [hist EXCEPT
                       !.cam_read = TRUE,
                       !.reads_after_stop =
                           IF stop_requested THEN Bump(@, 2) ELSE @]
    /\ UNCHANGED << mainVars, re, disk >>

\* if !read0_ok || !read1_ok || frame0.empty() || frame1.empty()
FrameDropped(r) ==
    \/ ~r.read0_ok
    \/ ~r.read1_ok
    \/ Empty(r.frame0)
    \/ Empty(r.frame1)

\* Variant: a failed or empty read ends the call with an error.
CheckReadFatal ==
    /\ run.pc = "check_read"
    /\ IF FrameDropped(run)
       THEN /\ run' = [run EXCEPT !.pc = "done", !.result = "err_read",
                                  !.writer_open = FALSE]
            /\ hist' = [hist EXCEPT !.dropped = TRUE, !.loop_exit = "error"]
       ELSE /\ run' = [run EXCEPT !.pc = "resize"]
            /\ hist' = [hist EXCEPT !.passed = TRUE]
    /\ UNCHANGED << mainVars, re, disk >>

\* Variant: the test looks at the read results only, not at the frames.
CheckReadOkOnly ==
    /\ run.pc = "check_read"
    /\ IF ~run.read0_ok \/ ~run.read1_ok
       THEN /\ run' = [run EXCEPT !.pc = "drop_check"]
            /\ hist' = [hist EXCEPT !.dropped = TRUE]
       ELSE /\ run' = [run EXCEPT !.pc = "resize"]
            /\ hist' = [hist EXCEPT !.passed = TRUE]
    /\ UNCHANGED << mainVars, re, disk >>

\* Variant: the counter counts dropped iterations too.
CheckReadCounts ==
    /\ run.pc = "check_read"
    /\ IF FrameDropped(run)
       THEN /\ run' = [run EXCEPT !.pc = "drop_check", !.frame_count = @ + 1]
            /\ hist' = [hist EXCEPT !.dropped = TRUE]
       ELSE /\ run' = [run EXCEPT !.pc = "resize"]
            /\ hist' = [hist EXCEPT !.passed = TRUE]
    /\ UNCHANGED << mainVars, re, disk >>

CheckRead ==
    /\ run.pc = "check_read"
    /\ IF FrameDropped(run)
       THEN /\ run' = [run EXCEPT !.pc = "drop_check"]
            /\ hist' = [hist EXCEPT !.dropped = TRUE]
       ELSE /\ run' = [run EXCEPT !.pc = "resize"]
            /\ hist' = [hist EXCEPT !.passed = TRUE]
    /\ UNCHANGED << mainVars, re, disk >>

\* Variant: a dropped frame ends the capture loop, flag or no flag.
DropCheckGiveUp ==
    /\ run.pc = "drop_check"
    /\ run' = [run EXCEPT !.pc = "finalize"]
    /\ hist' = [hist EXCEPT !.loop_exit = "drop_break"]
    /\ UNCHANGED << mainVars, re, disk >>

\* In the drop branch: if stop_requested.load(Relaxed) { break; }
DropCheck ==
    /\ run.pc = "drop_check"
    /\ IF LoadStop
       THEN /\ run' = [run EXCEPT !.pc = "finalize"]
            /\ hist' = [hist EXCEPT !.loop_exit = "drop_break"]
       ELSE /\ run' = [run EXCEPT !.pc = "drop_sleep"]
            /\ UNCHANGED hist
    /\ UNCHANGED << mainVars, re, disk >>

\* thread::sleep(50 ms); continue;
DropSleep ==
    /\ run.pc = "drop_sleep"
    /\ run' = [run EXCEPT !.pc = "head"]
    /\ UNCHANGED << mainVars, re, disk, hist >>

\* Lines 116-147: the resize branch; either imgproc::resize may fail.
ResizeFrames ==
    /\ run.pc = "resize"
    /\ IF DimensionsDiffer(run.frame0, run.frame1)
       THEN \E ok \in BOOLEAN :
              IF ok
              THEN /\ run' = [run EXCEPT !.pc = "count",
                                         !.frame0 = Resize(@),
                                         !.frame1 = Resize(@)]
                   /\ UNCHANGED hist
              ELSE /\ run' = Return(run, "err_resize")
                   /\ hist' = [hist EXCEPT !.loop_exit = "error"]
       ELSE /\ run' = [run EXCEPT !.pc = "count"]
            /\ UNCHANGED hist
    /\ UNCHANGED << mainVars, re, disk >>

\* Line 121: eprintln! panics when stderr cannot be written. The blocking
\* task unwinds: the locals are dropped and .await yields a JoinError.
Panic ==
    /\ run.pc = "resize"
    /\ DimensionsDiffer(run.frame0, run.frame1)
    /\ run' = Return(run, "panic")
    /\ hist' = [hist EXCEPT !.loop_exit = "error"]
    /\ UNCHANGED << mainVars, re, disk >>

\* frame_count += 1
Count ==
    /\ run.pc = "count"
    /\ run' = [run EXCEPT !.pc = "concat", !.frame_count = @ + 1]
    /\ UNCHANGED << mainVars, re, disk, hist >>

\* core::hconcat(&[frame1, frame0], &mut combined)?
Concat ==
    /\ run.pc = "concat"
    /\ IF HconcatOk(run.frame1, run.frame0)
       THEN /\ run' = [run EXCEPT
                 !.pc = "pre_check",
                 !.combined = Hconcat(run.frame1, run.frame0, run.frame_count)]
            /\ hist' = [hist EXCEPT
                 !.composed = Append(@,
                     Hconcat(run.frame1, run.frame0, run.frame_count))]
       ELSE /\ run' = Return(run, "err_concat")
            /\ hist' = [hist EXCEPT !.loop_exit = "error"]
    /\ UNCHANGED << mainVars, re, disk >>

\* if stop_requested.load(Relaxed) { break; }  before the write
PreCheck ==
    /\ run.pc = "pre_check"
    /\ IF LoadStop
       THEN /\ run' = [run EXCEPT !.pc = "finalize"]
            /\ hist' = [hist EXCEPT !.loop_exit = "pre_break"]
       ELSE /\ run' = [run EXCEPT !.pc = "write"]
            /\ UNCHANGED hist
    /\ UNCHANGED << mainVars, re, disk >>

\* Variant: a failed write is logged and the loop goes on.
WriteIgnoreErr ==
    /\ run.pc = "write"
    /\ \E ok \in BOOLEAN :
         /\ run' = [run EXCEPT !.pc = "post_check"]
         /\ IF ok
            THEN /\ disk' = [disk EXCEPT !.temp = Append(@, run.combined)]
                 /\ hist' = [hist EXCEPT
                       !.writes_after_stop =
                           IF stop_requested THEN @ + 1 ELSE @]
            ELSE /\ hist' = [hist EXCEPT !.write_failed = TRUE]
                 /\ UNCHANGED disk
    /\ UNCHANGED << mainVars, re >>

\* writer_guard.0.write(&combined).context(..)?
Write ==
    /\ run.pc = "write"
    /\ \E ok \in BOOLEAN :
         IF ok
         THEN /\ run' = [run EXCEPT !.pc = "post_check"]
              /\ disk' = [disk EXCEPT !.temp = AppendFrame(@, run.combined)]
              /\ hist' = [hist EXCEPT
                    !.writes_after_stop = IF stop_requested THEN @ + 1 ELSE @]
         ELSE /\ run' = Return(run, "err_write")
              /\ hist' = [hist EXCEPT !.loop_exit = "error",
                                      !.write_failed = TRUE]
              /\ UNCHANGED disk
    /\ UNCHANGED << mainVars, re >>

\* if stop_requested.load(Relaxed) { break; }  after the write
PostCheck ==
    /\ run.pc = "post_check"
    /\ IF LoadStop
       THEN /\ run' = [run EXCEPT !.pc = "finalize"]
            /\ hist' = [hist EXCEPT !.loop_exit = "post_break"]
       ELSE /\ run' = [run EXCEPT !.pc = "sleep"]
            /\ UNCHANGED hist
    /\ UNCHANGED << mainVars, re, disk >>

\* Lines 173-181: sleep what is left of frame_interval, back to the head.
Sleep ==
    /\ run.pc = "sleep"
    /\ run' = [run EXCEPT !.pc = "head"]
    /\ UNCHANGED << mainVars, re, disk, hist >>

\* Variant: the pipeline consumes the stop request once the loop is left.
FinalizeClears ==
    /\ run.pc = "finalize"
    /\ run' = [run EXCEPT !.pc = "drop_guard",
                          !.total_elapsed = run.elapsed,
                          !.real_fps = RealFps(run.frame_count, run.elapsed)]
    /\ stop_requested' = FALSE
    /\ UNCHANGED << recording_active, startPc, stopPending, taskRunning,
                    sessions, stopAcked, re, disk, hist >>

\* Lines 185-203: total_elapsed and real_fps.
Finalize ==
    /\ run.pc = "finalize"
    /\ run' = [run EXCEPT !.pc = "drop_guard",
                          !.total_elapsed = run.elapsed,
                          !.real_fps = RealFps(run.frame_count, run.elapsed)]
    /\ UNCHANGED << mainVars, re, disk, hist >>

\* drop(writer_guard)
DropWriterGuard ==
    /\ run.pc = "drop_guard"
    /\ run' = [run EXCEPT !.pc = "decide",
                          !.writer_open = DropGuard(run.writer_open)]
    /\ UNCHANGED << mainVars, re, disk, hist >>

\* Variant: the re-encode is run whatever frame_count is.
DecideAlways ==
    /\ run.pc = "decide"
    /\ run' = [run EXCEPT !.pc = "re_open"]
    /\ re' = [re EXCEPT !.fps = run.real_fps]
    /\ hist' = [hist EXCEPT !.reencoded = TRUE]
    /\ UNCHANGED << mainVars, disk >>

\* if frame_count > 0 { reencode_video(..) } else { .. }
Decide ==
    /\ run.pc = "decide"
    /\ IF run.frame_count > 0
       THEN /\ run' = [run EXCEPT !.pc = "re_open"]
            /\ re' = [re EXCEPT !.fps = run.real_fps]
            /\ hist' = [hist EXCEPT !.reencoded = TRUE]
       ELSE /\ run' = [run EXCEPT !.pc = "empty"]
            /\ UNCHANGED << re, hist >>
    /\ UNCHANGED << mainVars, disk >>

\* ------------------------------------------------------- reencode_video
\* An Err leaving reencode_video: cap and the final writer's guard are
\* dropped; run_recording_blocking passes the error on with `?`, so the
\* remove_file below it is not reached.
ReencodeFailed ==
    /\ re' = [re EXCEPT !.cap_open = FALSE,
                        !.writer_open = DropGuard(re.writer_open)]
    /\ run' = Return(run, "err_reencode")

\* Lines 233-240: VideoCapture::from_file(input_path) and is_opened().
ReOpen ==
    /\ run.pc = "re_open"
    /\ \E ok \in BOOLEAN :
         IF ok
         THEN /\ re' = [re EXCEPT !.cap_open = TRUE, !.pos = 1]
              /\ run' = [run EXCEPT !.pc = "re_writer"]
         ELSE ReencodeFailed
    /\ UNCHANGED << mainVars, disk, hist >>

\* Lines 242-256: VideoWriter::new(output_path, fourcc, fps, ..).
ReWriter ==
    /\ run.pc = "re_writer"
    /\ \E ok \in BOOLEAN :
         IF ok
         THEN /\ re' = [re EXCEPT !.writer_open = TRUE]
              /\ run' = [run EXCEPT !.pc = "re_read"]
              /\ disk' = [disk EXCEPT !.final_exists = TRUE,
                                      !.final = << >>,
                                      !.final_fps = re.fps]
         ELSE /\ ReencodeFailed
              /\ UNCHANGED disk
    /\ UNCHANGED << mainVars, hist >>

\* match cap.read(&mut frame): Ok(true) with the next stored frame, or with
\* an empty frame where the stored one cannot be decoded; Ok(false) at the
\* end of the stream; Err.
ReRead ==
    /\ run.pc = "re_read"
    /\ \/ /\ re.pos <= Len(disk.temp)
          /\ \E f \in {disk.temp[re.pos], NoFrame} :
               /\ re' = [re EXCEPT !.frame = f, !.pos = @ + 1]
               /\ hist' = [hist EXCEPT !.read_back = Append(@, f)]
          /\ run' = [run EXCEPT !.pc = "re_write"]
       \/ /\ re.pos > Len(disk.temp)
          /\ run' = [run EXCEPT !.pc = "re_finish"]
          /\ UNCHANGED << re, hist >>
       \/ /\ ReencodeFailed
          /\ UNCHANGED hist
    /\ UNCHANGED << mainVars, disk >>

\* Variant: an empty frame is written like any other.
ReWriteNoSkip ==
    /\ run.pc = "re_write"
    /\ \E ok \in BOOLEAN :
         IF ok
         THEN /\ disk' = [disk EXCEPT !.final = AppendFrame(@, re.frame)]
              /\ run' = [run EXCEPT !.pc = "re_read"]
              /\ UNCHANGED re
         ELSE /\ ReencodeFailed
              /\ UNCHANGED disk
    /\ UNCHANGED << mainVars, hist >>

\* Lines 263-270: skip an empty frame, else writer_guard.0.write(&frame)?
ReWrite ==
    /\ run.pc = "re_write"
    /\ IF re.frame.cols = 0 \/ re.frame.rows = 0
       THEN /\ run' = [run EXCEPT !.pc = "re_read"]
            /\ UNCHANGED << re, disk >>
       ELSE \E ok \in BOOLEAN :
              IF ok
              THEN /\ disk' = [disk EXCEPT !.final = AppendFrame(@, re.frame)]
                   /\ run' = [run EXCEPT !.pc = "re_read"]
                   /\ UNCHANGED re
              ELSE /\ ReencodeFailed
                   /\ UNCHANGED disk
    /\ UNCHANGED << mainVars, hist >>

\* Lines 279-281: drop(writer_guard); Ok(())
ReFinish ==
    /\ run.pc = "re_finish"
    /\ re' = [re EXCEPT !.cap_open = FALSE,
                        !.writer_open = DropGuard(re.writer_open)]
    /\ run' = [run EXCEPT !.pc = "remove"]
    /\ UNCHANGED << mainVars, disk, hist >>

\* Variant: a failed removal is ignored, as in the empty-session branch.
RemoveTempIgnoreErr ==
    /\ run.pc = "remove"
    /\ \E ok \in BOOLEAN :
         IF ok
         THEN /\ disk' = [disk EXCEPT !.temp_exists = FALSE]
              /\ UNCHANGED hist
         ELSE /\ hist' = [hist EXCEPT !.remove_failed = TRUE]
              /\ UNCHANGED disk
    /\ run' = Return(run, "ok")
    /\ UNCHANGED << mainVars, re >>

\* Lines 213-219: fs::remove_file(&temp_path)?; Ok(final_path)
RemoveTemp ==
    /\ run.pc = "remove"
    /\ \E ok \in BOOLEAN :
         IF ok
         THEN /\ disk' = [disk EXCEPT !.temp_exists = FALSE]
              /\ run' = Return(run, "ok")
              /\ UNCHANGED hist
         ELSE /\ run' = Return(run, "err_remove")
              /\ hist' = [hist EXCEPT !.remove_failed = TRUE]
              /\ UNCHANGED disk
    /\ UNCHANGED << mainVars, re >>

\* Lines 221-226: let _ = fs::remove_file(&temp_path); bail!("No frames ..")
EmptySession ==
    /\ run.pc = "empty"
    /\ \E ok \in BOOLEAN :
         IF ok
         THEN /\ disk' = [disk EXCEPT !.temp_exists = FALSE]
              /\ UNCHANGED hist
         ELSE /\ hist' = [hist EXCEPT !.remove_failed = TRUE]
              /\ UNCHANGED disk
    /\ run' = Return(run, "err_empty")
    /\ UNCHANGED << mainVars, re >>

\* ------------------------------------------------------- specification
Next ==
    \/ StartAccept
    \/ StartReject
    \/ StartReset
    \/ StartSpawn
    \/ TaskFinish
    \/ StopReject
    \/ StopLoad
    \/ StopStore
    \/ Tick
    \/ SetupFail
    \/ SetupOk
    \/ LoopHead
    \/ Read0
    \/ Read1
    \/ CheckRead
    \/ DropCheck
    \/ DropSleep
    \/ ResizeFrames
    \/ Panic
    \/ Count
    \/ Concat
    \/ PreCheck
    \/ Write
    \/ PostCheck
    \/ Sleep
    \/ Finalize
    \/ DropWriterGuard
    \/ Decide
    \/ ReOpen
    \/ ReWriter
    \/ ReRead
    \/ ReWrite
    \/ ReFinish
    \/ RemoveTemp
    \/ EmptySession

Spec == Init /\ [][Next]_vars

\* One step of the blocking task: every call the pipeline makes (camera
\* read, frame write, sleep, file operation) returns.
PipelineStep ==
    \/ SetupFail \/ SetupOk \/ LoopHead \/ Read0 \/ Read1 \/ CheckRead
    \/ DropCheck \/ DropSleep \/ ResizeFrames \/ Panic \/ Count \/ Concat
    \/ PreCheck
    \/ Write \/ PostCheck \/ Sleep \/ Finalize \/ DropWriterGuard \/ Decide
    \/ ReOpen \/ ReWriter \/ ReRead \/ ReWrite \/ ReFinish \/ RemoveTemp
    \/ EmptySession

\* The blocking thread is scheduled and its calls return: a pipeline step
\* that stays possible is eventually taken.
FairSpec == Spec /\ WF_vars(PipelineStep)

\* The tokio runtime polls the spawned task again once the blocking call it
\* awaits has completed.
TaskFairSpec == Spec /\ WF_vars(TaskFinish)

\* ================================================================ claims
\* The capture loop has been left (by a break, the loop head or an error).
AfterLoop == run.pc \notin LoopPcs \cup {"idle", "setup"}

\* Frames actually appended to the temporary file in this session.
FramesWritten == Len(disk.temp)

\* C1: once the cancellation flag is set while the capture loop runs, the
\* loop appends at most one more composite frame to the temporary writer,
\* and after such a write it is at the post-write check or out of the loop:
\* it neither sleeps nor starts another iteration.
C1_CancellationHonored ==
    /\ hist.writes_after_stop <= 1
    /\ hist.writes_after_stop = 1 => run.pc \notin (LoopPcs \ {"post_check"})

\* A stop request arrived between the pre-write check and the write: one
\* frame was written after it and the loop left at the post-write check.
C1_Witness ==
    /\ hist.writes_after_stop = 1
    /\ hist.loop_exit = "post_break"
    /\ run.pc = "finalize"

\* C2: a run that wrote no frame to the temporary file is never re-encoded,
\* produces no final file and never returns Ok.
C2_EmptyNeverSuccess ==
    (AfterLoop /\ FramesWritten = 0) =>
        /\ ~hist.reencoded
        /\ ~disk.final_exists
        /\ run.result # "ok"

\* C3: the frame rate passed to reencode_video equals N/S, N the frames
\* written to the temporary file and S > 0 the elapsed time of the loop.
C3_RateCorrection ==
    (hist.reencoded /\ run.total_elapsed > 0) =>
        re.fps.num * run.total_elapsed = FramesWritten * re.fps.den

\* The capture loop was left through one of its cancellation checks.
LoopLeftByStop ==
    hist.loop_exit \in {"head", "drop_break", "pre_break", "post_break"}

\* Positions in the temporary file whose frame the re-encoder got non-empty.
ReadBackKept ==
    { i \in 1..Len(disk.temp) : hist.read_back[i] # NoFrame }

\* C4 (as stated): on every successful run the final file holds exactly the
\* composite frames produced during capture, in order and in count.
C4_FrameOrderPreserved ==
    run.result = "ok" => disk.final = hist.composed

\* C4 (amended): on every successful run the final file holds, in capture
\* order and each once, exactly the composite frames that were written to
\* the temporary file and that the re-encoder did not read back as empty;
\* the written frames are the composites produced, in order, except that
\* the last one is missing when the loop left at the pre-write check.
C4_FinalIsWrittenMinusSkipped ==
    run.result = "ok" =>
        /\ Len(hist.read_back) = Len(disk.temp)
        /\ Len(disk.final) = Cardinality(ReadBackKept)
        /\ \A i \in 1..Len(disk.final) :
               disk.final[i] \in { disk.temp[j] : j \in ReadBackKept }
        /\ \A i, j \in 1..Len(disk.final) :
               i < j => disk.final[i].id < disk.final[j].id
        /\ Len(disk.temp) <= Len(hist.composed)
        /\ Len(hist.composed) <= Len(disk.temp) + 1
        /\ disk.temp = SubSeq(hist.composed, 1, Len(disk.temp))

\* A successful run whose final file holds two frames.
C4_Witness ==
    /\ run.result = "ok"
    /\ Len(disk.final) >= 2

\* C5: every composite frame written to the temporary writer is
\* 2 * FRAME_WIDTH wide and FRAME_HEIGHT high.
C5_DimensionInvariant ==
    \A i \in 1..Len(disk.temp) :
        /\ disk.temp[i].cols = 2 * FRAME_WIDTH
        /\ disk.temp[i].rows = FRAME_HEIGHT

C7_WriteFailureFatal ==
    hist.write_failed =>
        /\ run.pc = "done"
        /\ run.result = "err_write"
        /\ ~hist.reencoded
        /\ ~disk.final_exists

\* The second write of a session failed.
C7_Witness ==
    /\ hist.write_failed
    /\ FramesWritten >= 1

\* One step of the drop branch: a dropped frame leads to the cancellation
\* check, that check leaves the loop when the flag is set and else sleeps,
\* and the sleep leads back to the loop head; the call has not returned.
DropRetried ==
    /\ (run.pc = "check_read" /\ FrameDropped(run) /\ run'.pc # run.pc) =>
           (run'.pc = "drop_check" /\ run'.result = "none")
    /\ (run.pc = "drop_check" /\ run'.pc # run.pc) =>
           /\ run'.pc = IF stop_requested THEN "finalize" ELSE "drop_sleep"
           /\ run'.result = "none"
    /\ (run.pc = "drop_sleep" /\ run'.pc # run.pc) =>
           (run'.pc = "head" /\ run'.result = "none")

\* One step of a camera read does not end the call.
ReadNeverFatal ==
    (run.pc \in {"read0", "read1"} /\ run'.pc # run.pc) =>
        run'.result = "none"

\* C8 (as stated): a camera read that fails or yields an empty frame never
\* aborts the loop or returns a failure; the iteration is retried after a
\* pause unless cancellation is set.
C8_ReadFailureNonFatal == [][DropRetried /\ ReadNeverFatal]_vars

\* C8 (amended): a camera read that returns Ok(false) or an empty frame
\* never aborts the loop or returns a failure; the iteration is retried
\* after a pause unless cancellation is set, with no cap on the retries.
\* (A read that returns Err is not covered: it is returned to the caller.)
C8_DroppedFrameRetried == [][DropRetried]_vars

\* An iteration is being retried after a dropped frame.
C8_Witness ==
    /\ hist.dropped
    /\ run.pc = "read0"
    /\ run.result = "none"

\* The temporary file has been created in this session.
TempCreated == run.pc \notin {"idle", "setup"} /\ run.result # "err_setup"

\* C9: when reencode_video fails the temporary file stays and the failure
\* is returned; when the call returns Ok the temporary file is gone; the
\* file is gone only after a successful re-encode or an empty session.
C9_TempDeletedOnlyAfterSuccess ==
    /\ run.result = "err_reencode" => disk.temp_exists
    /\ run.result = "ok" => ~disk.temp_exists
    /\ (TempCreated /\ ~disk.temp_exists) => run.result \in {"ok", "err_empty"}

\* reencode_video failed mid-stream: both files are there.
C9_Witness ==
    /\ run.result = "err_reencode"
    /\ disk.temp_exists
    /\ disk.final_exists
    /\ Len(disk.final) >= 1

\* C10 (as stated): when the loop is left with frame_count = 0 the
\* re-encode is skipped, the temporary file is deleted, no final file is
\* produced and the empty-session failure is returned; when cancellation
\* was set before the first iteration no camera read was performed.
C10_EmptySessionFailure ==
    (run.pc = "done" /\ LoopLeftByStop /\ run.frame_count = 0) =>
        /\ ~hist.reencoded
        /\ ~disk.temp_exists
        /\ ~disk.final_exists
        /\ run.result = "err_empty"
        /\ ~hist.dropped => ~hist.cam_read

\* C10 (amended): as stated, except that the temporary file is deleted
\* unless fs::remove_file fails, a failure the code ignores.
C10_EmptySessionFails ==
    (run.pc = "done" /\ LoopLeftByStop /\ run.frame_count = 0) =>
        /\ ~hist.reencoded
        /\ disk.temp_exists => hist.remove_failed
        /\ ~disk.final_exists
        /\ run.result = "err_empty"
        /\ ~hist.dropped => ~hist.cam_read

\* Cancellation was set before the first iteration: no read, no frame, the
\* temporary file deleted, the empty-session failure returned.
C10_Witness ==
    /\ run.result = "err_empty"
    /\ hist.loop_exit = "head"
    /\ ~hist.cam_read
    /\ ~disk.temp_exists

\* C11: an iteration in which a camera read returned false or an empty frame
\* never reaches the counter or the write, so it leaves frame_count and the
\* temporary file as they were; a session in which every iteration was
\* dropped until cancellation ends with zero frames, the empty-session
\* failure and no final file.
C11_DroppedFrameNotCounted ==
    /\ run.pc \in {"resize", "count", "concat", "pre_check", "write"} =>
           ~FrameDropped(run)
    /\ run.pc \in {"drop_check", "drop_sleep"} =>
           /\ run.frame_count = FramesWritten
           /\ run.frame_count = Len(hist.composed)
    /\ (run.pc = "done" /\ LoopLeftByStop /\ hist.dropped /\ ~hist.passed) =>
           /\ run.frame_count = 0
           /\ FramesWritten = 0
           /\ run.result = "err_empty"
           /\ ~hist.reencoded
           /\ ~disk.final_exists

\* Every iteration was dropped, cancellation was seen in the drop branch and
\* the call returned the empty-session failure.
C11_Witness ==
    /\ run.pc = "done"
    /\ hist.loop_exit = "drop_break"
    /\ hist.dropped
    /\ ~hist.passed
    /\ run.result = "err_empty"

\* C12: while run_recording_blocking is executing, stop_requested never goes
\* from set to unset: no step of the pipeline clears it, and the only store
\* of false (handle_start_recording, line 43) is never taken during a run.
PipelineRunning == run.pc \notin {"idle", "done"}

StoresFalse == startPc = "reset" /\ startPc' = "spawn"

FlagKept ==
    PipelineRunning => /\ stop_requested => stop_requested'
                       /\ ~StoresFalse

C12_FlagMonotonic == [][FlagKept]_vars

C12_Witness ==
    /\ stop_requested /\ stopAcked
    /\ run.pc = "re_finish"

\* C13: once stop_requested is set while run_recording_blocking executes,
\* and every call of the pipeline returns, the capture loop is left and the
\* call returns a result, whatever the cameras deliver.
C13_TerminatesOnCancel ==
    (PipelineRunning /\ stop_requested)
        ~> (run.pc = "done" /\ run.result # "none")

C13_Witness ==
    /\ run.pc = "done" /\ LoopLeftByStop
    /\ hist.dropped /\ hist.passed
    /\ run.result \in {"ok", "err_reencode", "err_remove"}

\* C14: a step leaves the capture loop only through a cancellation check
\* that read the flag set, or through an error returned by a read, the
\* resize, the concatenation or the write; with the flag unset a dropped
\* frame always leads back to the next read, however often it happens.
LoopLeft == run.pc \in LoopPcs /\ run'.pc \notin LoopPcs

OnlyStopEndsLoop ==
    /\ LoopLeft =>
          \/ stop_requested /\ run'.pc = "finalize" /\ run'.result = "none"
          \/ /\ run'.pc = "done"
             /\ run'.result \in
                    {"err_read", "err_resize", "err_concat", "err_write",
                     "panic"}
    /\ (run.pc \in {"drop_check", "drop_sleep"} /\ ~stop_requested) =>
          run'.pc \in {run.pc, "drop_sleep", "head"}
    /\ (run.pc = "head" /\ ~stop_requested) => run'.pc \in {"head", "read0"}

C14_OnlyCancellationStops == [][OnlyStopEndsLoop]_vars

C14_Witness ==
    /\ hist.dropped /\ ~hist.passed
    /\ ~stop_requested /\ ~stopAcked
    /\ run.pc = "read0"

\* C15: with the flag set, the loop reads each camera at most once more and
\* writes at most one more frame; a read made with the flag set is followed
\* by no write, no sleep and no return to the loop head, and a write made
\* with the flag set is followed by no read.
ReadAfterStop(i) == hist.reads_after_stop[i] = 1

C15_StopWithinIteration ==
    /\ hist.reads_after_stop[1] <= 1
    /\ hist.reads_after_stop[2] <= 1
    /\ hist.writes_after_stop <= 1
    /\ ReadAfterStop(1) =>
          run.pc \notin {"head", "read0", "drop_sleep", "write", "post_check",
                         "sleep"}
    /\ ReadAfterStop(2) =>
          run.pc \notin {"head", "read0", "read1", "drop_sleep", "write",
                         "post_check", "sleep"}
    /\ (ReadAfterStop(1) \/ ReadAfterStop(2)) => hist.writes_after_stop = 0

C15_Witness ==
    /\ hist.reads_after_stop = <<1, 1>>
    /\ hist.loop_exit = "pre_break"
    /\ run.pc = "finalize"

\* C16: between two reads of reencode_video, and from the end of the stream
\* on, the final file holds exactly the non-empty frames cap.read delivered,
\* in the order delivered, each once; while a frame waits to be written the
\* file holds those of the frames before it. After the end of the stream
\* the final writer is released and reencode_video has returned Ok.
NonEmptyFrame(f) == ~Empty(f)

Copied(frames) == SelectSeq(frames, NonEmptyFrame)

Front(frames) == SubSeq(frames, 1, Len(frames) - 1)

EndOfStreamSeen ==
    \/ run.pc \in {"re_finish", "remove"}
    \/ run.pc = "done" /\ run.result \in {"ok", "err_remove"}

C16_ReencodeFilters ==
    /\ (run.pc = "re_read" \/ EndOfStreamSeen) =>
          disk.final = Copied(hist.read_back)
    /\ run.pc = "re_write" =>
          /\ hist.read_back # << >>
          /\ disk.final = Copied(Front(hist.read_back))
    /\ (EndOfStreamSeen /\ run.pc # "re_finish") =>
          /\ ~re.writer_open
          /\ run.result \in {"none", "ok", "err_remove"}

C16_Witness ==
    /\ run.pc = "remove"
    /\ Len(hist.read_back) = 2
    /\ Empty(hist.read_back[1]) /\ ~Empty(hist.read_back[2])
    /\ disk.final = << hist.read_back[2] >>

\* C17: frame_count is the number of frames appended to the temporary file
\* or one more; it is one more exactly from the increment to the end of
\* that iteration's write, and after the loop was left by the pre-write
\* cancellation check or by a failed concatenation or write.
CountedNotWritten ==
    \/ run.pc \in {"concat", "pre_check", "write"}
    \/ hist.loop_exit = "pre_break"
    \/ run.result \in {"err_concat", "err_write"}

C17_CounterWithinOne ==
    /\ run.frame_count \in {FramesWritten, FramesWritten + 1}
    /\ run.frame_count = FramesWritten + 1 <=> CountedNotWritten

C17_Witness ==
    /\ run.pc = "finalize"
    /\ hist.loop_exit = "pre_break"
    /\ FramesWritten = 1
    /\ run.frame_count = 2

\* C18: the pipeline is spawned only when no task and no pipeline of an
\* earlier /start is still running, so two invocations never overlap; while
\* recording_active is true no /start gets past the compare_exchange, hence
\* none resets stop_requested or spawns.
Spawns == startPc = "spawn" /\ startPc' = "idle"

StartPassesCas == startPc = "idle" /\ startPc' # "idle"

OnePipeline ==
    /\ Spawns => ~taskRunning /\ ~PipelineRunning
    /\ recording_active => ~StartPassesCas
    /\ (taskRunning \/ PipelineRunning) =>
          /\ recording_active
          /\ startPc = "idle"
          /\ ~StoresFalse /\ ~Spawns

C18_SinglePipeline == [][OnePipeline]_vars

C18_Witness ==
    /\ sessions = 2
    /\ recording_active /\ taskRunning
    /\ run.pc = "write"
    /\ startPc = "idle"

\* C19: once a /stop has stored true and answered Ok during a session,
\* stop_requested stays set for as long as that session's recording_active
\* is set, so the session's pipeline finds it set; in particular the reset
\* in handle_start_recording does not overwrite it.
AckedStopKept ==
    (recording_active /\ stopAcked /\ stop_requested) => stop_requested'

C19_AcknowledgedStopKept == [][AckedStopKept]_vars

\* C20: recording_active is true whenever the pipeline is running, and once
\* the pipeline has finished (Ok, Err or panic) the spawned task resets
\* recording_active, after which /start can pass the compare_exchange.
StartAcceptable == ~recording_active /\ ~taskRunning /\ startPc = "idle"

C20_ActiveUntilFinished ==
    /\ [](PipelineRunning => (recording_active /\ taskRunning))
    /\ (taskRunning /\ run.pc = "done") ~> StartAcceptable

C20_Witness ==
    /\ run.pc = "done" /\ run.result = "panic"
    /\ sessions = 2
    /\ startPc = "reset"
    /\ recording_active

====
